---- MODULE Spec2Model ----
(***************************************************************************)
(* A model of the layout constraint solver (src/constraint_solver.py) and  *)
(* of the table column shrinker (src/mudblood/mudblood.py).                *)
(*                                                                         *)
(* constraint_solver.py turns a tree of elements, each declaring some of   *)
(* x, y, w, h, right, bottom as an expression, into sympy expressions      *)
(* (one per declared attribute, two identities per element) and hands      *)
(* them to sympy's linsolve.  sympy is a library: S() is modelled by the   *)
(* canonical linear form it builds (like terms collected, zero terms       *)
(* gone), linsolve by exact rational Gauss-Jordan elimination over the     *)
(* symbols in the order they are passed.                                   *)
(***************************************************************************)
EXTENDS Integers, Sequences, FiniteSets, TLC

VARIABLES layout, pc, equations, symbols, solve, error, output,
          columns, total_width, given, spc, steps

vars == <<layout, pc, equations, symbols, solve, error, output,
          columns, total_width, given, spc, steps>>

solverVars == <<layout, pc, equations, symbols, solve, error, output>>
scaleVars == <<columns, total_width, given, spc, steps>>

----------------------------------------------------------------------------
(* Exact rationals <<n, d>>, d > 0, in lowest terms: sympy's Rational.      *)

Abs(n) == IF n < 0 THEN 0 - n ELSE n

RECURSIVE GCD(_, _)
GCD(a, b) == IF b = 0 THEN a ELSE GCD(b, a % b)

RNorm(n, d) ==
    IF n = 0 THEN <<0, 1>>
    ELSE LET g == GCD(Abs(n), Abs(d))
             s == IF d < 0 THEN 0 - 1 ELSE 1
         IN  <<(s * n) \div g, (s * d) \div g>>

RZero == <<0, 1>>
ROne == <<1, 1>>
RInt(n) == <<n, 1>>
RNeg(a) == <<0 - a[1], a[2]>>
RAdd(a, b) ==
    IF a[1] = 0 THEN b
    ELSE IF b[1] = 0 THEN a
    ELSE RNorm(a[1] * b[2] + b[1] * a[2], a[2] * b[2])
RMul(a, b) ==
    IF a[1] = 0 \/ b[1] = 0 THEN RZero
    ELSE IF a = ROne THEN b
    ELSE IF b = ROne THEN a
    ELSE RNorm(a[1] * b[1], a[2] * b[2])
RDiv(a, b) ==
    IF a[1] = 0 THEN RZero
    ELSE IF b = ROne THEN a
    ELSE RNorm(a[1] * b[2], a[2] * b[1])

----------------------------------------------------------------------------
(* sympy expressions that are linear: a constant c plus a sum of           *)
(* coefficient * Symbol, kept canonical the way sympy's Add keeps it: like *)
(* terms collected and zero terms dropped.  t maps each Symbol that occurs *)
(* to its (non-zero) coefficient.                                          *)

Lin(c, t) == [c |-> c, t |-> t]

NoTerms == [s \in {} |-> <<0, 1>>]

LinCoef(e, s) == IF s \in DOMAIN e.t THEN e.t[s] ELSE RZero

LinAdd(e, f) ==
    LET both == DOMAIN e.t \cup DOMAIN f.t
        keep == {s \in both : RAdd(LinCoef(e, s), LinCoef(f, s)) # RZero}
    IN  Lin(RAdd(e.c, f.c), [s \in keep |-> RAdd(LinCoef(e, s), LinCoef(f, s))])

LinScale(e, k) ==
    IF k = RZero THEN Lin(RZero, NoTerms)
    ELSE Lin(RMul(e.c, k), [s \in DOMAIN e.t |-> RMul(e.t[s], k)])

LinSym(s) == Lin(RZero, [x \in {s} |-> ROne])
LinConst(n) == Lin(RInt(n), NoTerms)

(* eqn.atoms(Symbol) *)
Atoms(e) == DOMAIN e.t

(* Python's None, as _build_eqn returns it for an undeclared key *)
None == [none |-> TRUE]
IsNone(e) == "none" \in DOMAIN e

(* bool(e) as the filter of get_equations sees it: None is falsy, and so   *)
(* is sympy's number zero; every other expression is truthy.               *)
Truthy(e) == ~IsNone(e) /\ ~(e.c = RZero /\ DOMAIN e.t = {})

----------------------------------------------------------------------------
(* Expression sources.  The code holds them as strings ("parent.w / 2");   *)
(* here a source is its parse tree: a literal, a dotted reference id.attr, *)
(* a quotient by a literal, or a sum.                                      *)

Num(n) == [k |-> "num", n |-> n]
Ref(id, attr) == [k |-> "ref", id |-> id, attr |-> attr]
Quot(id, attr, n) == [k |-> "quot", id |-> id, attr |-> attr, n |-> n]
Plus(id, attr, n) == [k |-> "plus", id |-> id, attr |-> attr, n |-> n]

(* element[key].replace('.', '__'): the Symbol a dotted reference becomes  *)
SymbolName(id, attr) == id \o "__" \o attr

(* S(expr) of a source whose dots were replaced *)
Sympify(src) ==
    CASE src.k = "num" -> LinConst(src.n)
      [] src.k = "ref" -> LinSym(SymbolName(src.id, src.attr))
      [] src.k = "quot" ->
            LinScale(LinSym(SymbolName(src.id, src.attr)), RDiv(ROne, RInt(src.n)))
      [] src.k = "plus" ->
            LinAdd(LinSym(SymbolName(src.id, src.attr)), LinConst(src.n))

(* An element of the layout: its id, the geometric keys it declares (a     *)
(* function from key to source) and its children, a sequence of elements.  *)
Element(id, attrs, children) == [id |-> id, attrs |-> attrs, children |-> children]

(* _build_eqn with the sign of the declared attribute lost: "{}__{} + {}" *)
_build_eqn_unsigned(element, key) ==
    IF key \notin DOMAIN element.attrs THEN None
    ELSE LinAdd(LinSym(SymbolName(element.id, key)), Sympify(element.attrs[key]))

_build_eqn(element, key) ==
    IF key \notin DOMAIN element.attrs THEN None
    ELSE LinAdd(LinScale(LinSym(SymbolName(element.id, key)), RInt(0 - 1)),
                Sympify(element.attrs[key]))

(* the identity with the size subtracted: "-{0}__right + {0}__x - {0}__w" *)
Identity_subtracting(id, far, near, size) ==
    LinAdd(LinScale(LinSym(SymbolName(id, far)), RInt(0 - 1)),
           LinAdd(LinSym(SymbolName(id, near)),
                  LinScale(LinSym(SymbolName(id, size)), RInt(0 - 1))))

(* S("-{0}__right + {0}__x + {0}__w") and S("-{0}__bottom + {0}__y + {0}__h") *)
Identity(id, far, near, size) ==
    LinAdd(LinScale(LinSym(SymbolName(id, far)), RInt(0 - 1)),
           LinAdd(LinSym(SymbolName(id, near)), LinSym(SymbolName(id, size))))

ElementEquations(e) ==
    << _build_eqn(e, "x"), _build_eqn(e, "y"), _build_eqn(e, "w"),
       _build_eqn(e, "h"), _build_eqn(e, "right"), _build_eqn(e, "bottom"),
       Identity(e.id, "right", "x", "w"), Identity(e.id, "bottom", "y", "h") >>

RECURSIVE get_equations(_)
get_equations(elements) ==
    IF elements = <<>> THEN <<>>
    ELSE LET RECURSIVE Walk(_)
             Walk(i) ==
                 IF i > Len(elements) THEN <<>>
                 ELSE ElementEquations(elements[i])
                        \o get_equations(elements[i].children)
                        \o Walk(i + 1)
         IN  SelectSeq(Walk(1), Truthy)

----------------------------------------------------------------------------
(* linsolve(equations, *symbols): the solution set of the linear system    *)
(* equations[i] = 0 over the symbols in the order given.  The empty set    *)
(* when the system is inconsistent; otherwise one tuple, the value of each *)
(* symbol, in which a symbol without a pivot stands for itself and the     *)
(* others are expressed in the free ones.                                  *)

AugmentedRow(e, syms) ==
    [j \in 1..(Len(syms) + 1) |->
        IF j <= Len(syms) THEN LinCoef(e, syms[j]) ELSE RNeg(e.c)]

Augmented(eqns, syms) == [i \in 1..Len(eqns) |-> AugmentedRow(eqns[i], syms)]

(* one elimination step: the pivot row p is scaled to a leading 1, moved   *)
(* to row r, and column c is cleared from every other row                  *)
Eliminate(M, r, c, n, p) ==
    LET Step(prow) ==
          [i \in 1..Len(M) |->
              IF i = r THEN prow
              ELSE LET Clear(row) ==
                         IF row[c] = RZero THEN row
                         ELSE [j \in 1..(n + 1) |->
                                 RAdd(row[j], RNeg(RMul(row[c], prow[j])))]
                   IN  Clear(IF i = p THEN M[r] ELSE M[i])]
    IN  CHOOSE M2 \in {Step(prow) : prow \in {[j \in 1..(n + 1) |-> RDiv(M[p][j], M[p][c])]}} : TRUE

(* elimination that never exchanges rows: a column whose entry in row r is *)
(* zero is passed over even when a row below could pivot on it             *)
RECURSIVE Reduce_unpivoted(_, _, _, _)
Reduce_unpivoted(M, r, c, n) ==
    IF r > Len(M) \/ c > n THEN M
    ELSE IF M[r][c] = RZero THEN Reduce_unpivoted(M, r, c + 1, n)
    ELSE Reduce_unpivoted(Eliminate(M, r, c, n, r), r + 1, c + 1, n)

RECURSIVE Reduce(_, _, _, _)
Reduce(M, r, c, n) ==
    IF r > Len(M) \/ c > n THEN M
    ELSE LET cand == {i \in r..Len(M) : M[i][c] # RZero}
         IN  IF cand = {} THEN Reduce(M, r, c + 1, n)
             ELSE Reduce(Eliminate(M, r, c, n, CHOOSE i \in cand : \A k \in cand : i <= k),
                         r + 1, c + 1, n)

(* the column of a reduced row's leading entry, 0 for a row of zeros *)
PivotCol(row, n) ==
    LET nz == {j \in 1..n : row[j] # RZero}
    IN  IF nz = {} THEN 0 ELSE CHOOSE j \in nz : \A k \in nz : j <= k

(* the solution set read off a reduced matrix R *)
Solutions(R, syms) ==
    LET n == Len(syms)
        value(j) ==
            LET rows == {i \in 1..Len(R) : R[i][j] # RZero /\ PivotCol(R[i], n) = j}
            IN  IF rows = {} THEN LinSym(syms[j])
                ELSE LET i == CHOOSE i \in rows : TRUE
                         free == {k \in (j + 1)..n : R[i][k] # RZero}
                     IN  Lin(R[i][n + 1],
                             [s \in {syms[k] : k \in free} |->
                                 RNeg(R[i][CHOOSE k \in free : syms[k] = s])])
    IN  IF \E i \in 1..Len(R) : PivotCol(R[i], n) = 0 /\ R[i][n + 1] # RZero
        THEN {}
        ELSE {[j \in 1..n |-> value(j)]}

(* a solver that takes a system with more equations than unknowns to have *)
(* no solution                                                             *)
linsolve_square(eqns, syms) ==
    IF Len(eqns) > Len(syms) THEN {}
    ELSE UNION {Solutions(R, syms) : R \in {Reduce(Augmented(eqns, syms), 1, 1, Len(syms))}}

linsolve(eqns, syms) ==
    UNION {Solutions(R, syms) : R \in {Reduce(Augmented(eqns, syms), 1, 1, Len(syms))}}

----------------------------------------------------------------------------
(* The layout of the source, lines 5-46.                                   *)

SourceLayout ==
    << Element("parent",
         ("x" :> Num(0)) @@ ("y" :> Num(0)) @@ ("w" :> Num(800)) @@ ("h" :> Num(600)),
         << Element("rect1",
              ("x" :> Num(0)) @@ ("y" :> Num(0)) @@ ("w" :> Quot("parent", "w", 2))
                 @@ ("h" :> Ref("parent", "h")),
              <<>>),
            Element("rect2",
              ("x" :> Ref("rect1", "right")) @@ ("y" :> Num(0))
                 @@ ("right" :> Ref("parent", "right")) @@ ("h" :> Quot("parent", "h", 2)),
              <<>>),
            Element("rect3",
              ("x" :> Ref("rect2", "x")) @@ ("y" :> Ref("rect2", "bottom"))
                 @@ ("w" :> Ref("rect2", "w")) @@ ("bottom" :> Ref("parent", "bottom")),
              <<>>) >>) >>

(* The layouts solved here: the source's, and every layout of a root with  *)
(* two more elements "a" and "b", either both its children (in either      *)
(* order) or "b" nested in "a".  "a" declares one of the patterns of       *)
(* Primary, "b" one of Secondary.  The patterns are those of the source    *)
(* layout (a literal, parent.attr, parent.attr / 2, a sibling's edge) and  *)
(* the ill-formed ones: both w and right declared (agreeing or not), no    *)
(* width at all, an attribute declared as itself, a reference to an id     *)
(* that is no element.  A root is named "parent", as in the source, or not.*)

RootIds == {"parent", "top"}

Primary(id, other) ==
    LET horizontal ==
          { ("x" :> Num(0)) @@ ("w" :> Quot("parent", "w", 2)),
            ("x" :> Ref(other, "right")) @@ ("right" :> Ref("parent", "right")),
            ("x" :> Num(0)) @@ ("w" :> Num(400)) @@ ("right" :> Num(400)),
            ("x" :> Num(0)) @@ ("w" :> Num(400)) @@ ("right" :> Num(500)),
            ("x" :> Num(0)),
            ("x" :> Ref(id, "x")) @@ ("w" :> Num(400)),
            ("x" :> Ref("ghost", "x")) @@ ("w" :> Num(400)) }
        vertical == ("y" :> Num(0)) @@ ("h" :> Quot("parent", "h", 2))
    IN  {hd @@ vertical : hd \in horizontal}

Secondary(id, other) ==
    LET horizontal ==
          { ("x" :> Num(0)) @@ ("w" :> Quot("parent", "w", 2)),
            ("x" :> Ref(other, "right")) @@ ("right" :> Ref("parent", "right")),
            ("x" :> Plus(other, "x", 100)) @@ ("w" :> Num(400)) }
        vertical ==
          { ("y" :> Num(0)) @@ ("h" :> Ref("parent", "h")),
            ("y" :> Ref(other, "bottom")) @@ ("bottom" :> Ref("parent", "bottom")) }
    IN  {hd @@ vd : hd \in horizontal, vd \in vertical}

RootDeclarations ==
    ("x" :> Num(0)) @@ ("y" :> Num(0)) @@ ("w" :> Num(800)) @@ ("h" :> Num(600))

Flat(root, first, second) ==
    << Element(root, RootDeclarations, <<first, second>>) >>

Nested(root, outer, inner) ==
    << Element(root, RootDeclarations,
               << Element(outer.id, outer.attrs, <<inner>>) >>) >>

Layouts ==
    {SourceLayout}
    \cup UNION { { Flat(r, Element("a", da, <<>>), Element("b", db, <<>>)),
                   Flat(r, Element("b", db, <<>>), Element("a", da, <<>>)),
                   Nested(r, Element("a", da, <<>>), Element("b", db, <<>>)) } :
                 r \in RootIds, da \in Primary("a", "b"), db \in Secondary("b", "a") }

(* list(set): the order of a set's elements is not specified.  The orders  *)
(* tried are the rotations of one order of the set and their reverses.     *)
MaxRotate == 1

RECURSIVE SetToSeq(_)
SetToSeq(S) ==
    IF S = {} THEN <<>>
    ELSE LET x == CHOOSE x \in S : TRUE IN <<x>> \o SetToSeq(S \ {x})

Rotate(s, k) == [i \in 1..Len(s) |-> s[((i - 1 + k) % Len(s)) + 1]]
Reverse(s) == [i \in 1..Len(s) |-> s[Len(s) + 1 - i]]

SymbolOrders(S) ==
    LET s == SetToSeq(S)
    IN  {Rotate(s, k) : k \in 0..MaxRotate} \cup {Reverse(Rotate(s, k)) : k \in 0..MaxRotate}

----------------------------------------------------------------------------
(* main(), a statement at a time.                                          *)

Init ==
    /\ layout \in Layouts
    /\ pc = "main"
    /\ equations = <<>>
    /\ symbols = <<>>
    /\ solve = <<>>
    /\ error = "none"
    /\ output = <<>>
    /\ columns = <<>> /\ total_width = 0 /\ given = <<>> /\ spc = "idle" /\ steps = 0

(* line 80 *)
GetEquations ==
    /\ pc = "main"
    /\ equations' = get_equations(layout)
    /\ pc' = "symbols"
    /\ UNCHANGED <<layout, symbols, solve, error, output>>
    /\ UNCHANGED scaleVars

(* lines 81-84 *)
CollectSymbols ==
    /\ pc = "symbols"
    /\ \E order \in SymbolOrders(UNION {Atoms(equations[i]) : i \in 1..Len(equations)}) :
          symbols' = order
    /\ pc' = "solve"
    /\ UNCHANGED <<layout, equations, solve, error, output>>
    /\ UNCHANGED scaleVars

(* line 85: list(linsolve(...))[0] raises IndexError on the empty set *)
Solve ==
    /\ pc = "solve"
    /\ \E sols \in {linsolve(equations, symbols)} :
           IF sols = {}
           THEN /\ error' = "IndexError"
                /\ pc' = "raised"
                /\ solve' = solve
           ELSE /\ solve' = (CHOOSE t \in sols : TRUE)
                /\ pc' = "print"
                /\ error' = error
    /\ UNCHANGED <<layout, equations, symbols, output>>
    /\ UNCHANGED scaleVars

(* line 86: list(zip(symbols, solve)) *)
PrintResult ==
    /\ pc = "print"
    /\ output' = [i \in 1..Len(symbols) |-> <<symbols[i], solve[i]>>]
    /\ pc' = "done"
    /\ UNCHANGED <<layout, equations, symbols, solve, error>>
    /\ UNCHANGED scaleVars

Next == GetEquations \/ CollectSymbols \/ Solve \/ PrintResult

Spec == Init /\ [][Next]_vars

----------------------------------------------------------------------------
(* _scale_column_widths(columns, total_width), mudblood.py lines 11-18,    *)
(* an iteration of its loop at a time.                                     *)

MaxColumns == 3
MaxWidth == 3
MaxTotal == 5

RECURSIVE SeqSum(_)
SeqSum(s) == IF s = <<>> THEN 0 ELSE s[1] + SeqSum(Tail(s))

SeqMax(s) == CHOOSE m \in {s[i] : i \in 1..Len(s)} : \A i \in 1..Len(s) : s[i] <= m

(* line 17 shaving one of the biggest columns only, the first *)
Shaved_first(cols) ==
    LET biggest == SeqMax(cols)
        first == CHOOSE i \in 1..Len(cols) :
                    cols[i] = biggest /\ \A j \in 1..(i - 1) : cols[j] # biggest
    IN  [i \in 1..Len(cols) |-> IF i = first THEN cols[i] - 1 ELSE cols[i]]

(* line 17 *)
Shaved(cols) ==
    LET biggest == SeqMax(cols)
    IN  [i \in 1..Len(cols) |-> IF cols[i] >= biggest THEN cols[i] - 1 ELSE cols[i]]

InitScale ==
    /\ \E n \in 1..MaxColumns : given \in [1..n -> (0 - 1)..MaxWidth]
    /\ total_width \in (0 - 1)..MaxTotal
    /\ columns = given
    /\ spc = "loop"
    /\ steps = 0
    /\ layout = <<>> /\ pc = "off" /\ equations = <<>> /\ symbols = <<>>
    /\ solve = <<>> /\ error = "none" /\ output = <<>>

(* lines 13-17: one pass of the loop *)
Shave ==
    /\ spc = "loop"
    /\ SeqSum(columns) > total_width
    /\ columns' = Shaved(columns)
    /\ steps' = steps + 1
    /\ UNCHANGED <<total_width, given, spc>>
    /\ UNCHANGED solverVars

(* lines 13, 18: the loop's test fails and the columns are returned *)
Return ==
    /\ spc = "loop"
    /\ ~(SeqSum(columns) > total_width)
    /\ spc' = "returned"
    /\ UNCHANGED <<columns, total_width, given, steps>>
    /\ UNCHANGED solverVars

NextScale == Shave \/ Return

(* the interpreter keeps running the loop: a pass that can be made is made *)
SpecScale == InitScale /\ [][NextScale]_vars /\ WF_vars(NextScale)

----------------------------------------------------------------------------
(* What the claims speak of.                                               *)

Keys == {"x", "y", "w", "h", "right", "bottom"}

(* every element of a layout, with the id of the element that contains it  *)
(* ("" for a root) and its depth (0 for a root)                            *)
RECURSIVE Nodes(_, _, _)
Nodes(elements, container, depth) ==
    UNION { {[id |-> elements[i].id, attrs |-> elements[i].attrs,
              container |-> container, depth |-> depth]}
              \cup Nodes(elements[i].children, elements[i].id, depth + 1) :
            i \in 1..Len(elements) }

TreeNodes == Nodes(layout, "", 0)

(* the value printed for a symbol *)
Printed(s) == \E i \in 1..Len(output) : output[i][1] = s
ValueOf(s) == output[CHOOSE i \in 1..Len(output) : output[i][1] = s][2]
Attr(id, key) == ValueOf(SymbolName(id, key))

(* a value that is a number, and the number *)
IsNumber(v) == DOMAIN v.t = {}
Resolved == \A i \in 1..Len(output) : IsNumber(output[i][2])

Rect(id, x, y, w, h, right, bottom) ==
    /\ \A k \in Keys : Printed(SymbolName(id, k))
    /\ Attr(id, "x") = LinConst(x) /\ Attr(id, "y") = LinConst(y)
    /\ Attr(id, "w") = LinConst(w) /\ Attr(id, "h") = LinConst(h)
    /\ Attr(id, "right") = LinConst(right) /\ Attr(id, "bottom") = LinConst(bottom)

(* C1: the source's three-rectangle layout solves, to exactly one          *)
(* solution: every symbol gets a number, and rect1 = (0, 0, 400, 600,      *)
(* right 400, bottom 600), rect2 = (400, 0, 400, 300, right 800, bottom    *)
(* 300), rect3 = (400, 300, 400, 300, right 800, bottom 600).              *)
C1_ThreeRectangles ==
    layout = SourceLayout =>
        /\ pc # "raised"
        /\ pc = "done" =>
              /\ Resolved
              /\ Rect("rect1", 0, 0, 400, 600, 400, 600)
              /\ Rect("rect2", 400, 0, 400, 300, 800, 300)
              /\ Rect("rect3", 400, 300, 400, 300, 800, 600)

C1_Witness == layout = SourceLayout /\ pc = "done"

(* C2: in every result printed, every element of the tree, at any depth    *)
(* and whether or not it declared right or bottom, has right = x + w and   *)
(* bottom = y + h exactly.                                                 *)
C2_IdentityClosure ==
    pc = "done" =>
        \A n \in TreeNodes :
            /\ \A k \in Keys : Printed(SymbolName(n.id, k))
            /\ Attr(n.id, "right") = LinAdd(Attr(n.id, "x"), Attr(n.id, "w"))
            /\ Attr(n.id, "bottom") = LinAdd(Attr(n.id, "y"), Attr(n.id, "h"))

C2_Witness ==
    /\ pc = "done" /\ Resolved
    /\ \E n \in TreeNodes :
          /\ n.depth = 2
          /\ "right" \notin DOMAIN n.attrs /\ "bottom" \notin DOMAIN n.attrs
          /\ Attr(n.id, "right") # Attr(n.id, "x")

(* the ids an element's declarations refer to *)
References(n) == {n.attrs[k].id : k \in {k \in DOMAIN n.attrs : n.attrs[k].k # "num"}}
TreeIds == {n.id : n \in TreeNodes}
TreeSymbols == {SymbolName(n.id, k) : n \in TreeNodes, k \in Keys}

(* an element declaring x, w and right as numbers with right # x + w *)
DeclaresConflict(n) ==
    /\ {"x", "w", "right"} \subseteq DOMAIN n.attrs
    /\ \A k \in {"x", "w", "right"} : n.attrs[k].k = "num"
    /\ n.attrs["right"].n # n.attrs["x"].n + n.attrs["w"].n

(* C3: a layout in which an element declares x, w and right with right     *)
(* different from x + w ends in a ContradictionError and returns no        *)
(* values.                                                                 *)
C3_ContradictionError ==
    (pc \in {"print", "done", "raised"} /\ \E n \in TreeNodes : DeclaresConflict(n)) =>
        pc = "raised" /\ error = "ContradictionError" /\ solve = <<>>

(* C4: a layout in which every reference names an element and some element *)
(* declares neither w nor right, nothing else fixing them, ends in an      *)
(* UnderdeterminedError; no result with an attribute left parametric is    *)
(* ever returned.                                                          *)
C4_UnderdeterminedError ==
    /\ ( /\ pc \in {"print", "done", "raised"}
         /\ \A n \in TreeNodes : References(n) \subseteq TreeIds
         /\ \E n \in TreeNodes : "w" \notin DOMAIN n.attrs /\ "right" \notin DOMAIN n.attrs )
          => pc = "raised" /\ error = "UnderdeterminedError"
    /\ pc = "done" => Resolved

(* the value of a source read with its reference taken to be to element id *)
ReadAt(src, id) ==
    CASE src.k = "ref" -> Attr(id, src.attr)
      [] src.k = "quot" -> LinScale(Attr(id, src.attr), RDiv(ROne, RInt(src.n)))
      [] src.k = "plus" -> LinAdd(Attr(id, src.attr), LinConst(src.n))

(* C5: in a declaration of any element that has a containing element,      *)
(* parent.attr is the attr of that containing element, whatever the ids    *)
(* in the tree are and however deep the element is.                        *)
C5_ParentIsContainer ==
    pc = "done" =>
        \A n \in TreeNodes : \A k \in DOMAIN n.attrs :
            (n.container # "" /\ n.attrs[k].k # "num" /\ n.attrs[k].id = "parent") =>
                Attr(n.id, k) = ReadAt(n.attrs[k], n.container)

(* C6: a reference to an id that is no element (and is not the alias       *)
(* parent) fails before any equation is built, and the unknowns are        *)
(* exactly the six attributes of each element of the tree.                 *)
C6_UnknownReference ==
    /\ (\E n \in TreeNodes : ~(References(n) \subseteq TreeIds \cup {"parent"})) =>
            equations = <<>> /\ symbols = <<>> /\ pc \notin {"print", "done"}
    /\ pc \in {"solve", "print", "done", "raised"} =>
            {symbols[i] : i \in 1..Len(symbols)} = TreeSymbols

(* the symbols of a list of equations, as main() collects them *)
SymbolsOf(eqns) == UNION {Atoms(eqns[i]) : i \in 1..Len(eqns)}

(* the elements with the declaration of key taken from element id *)
RECURSIVE Without(_, _, _)
Without(elements, id, key) ==
    [i \in 1..Len(elements) |->
        Element(elements[i].id,
                IF elements[i].id = id
                THEN [k \in DOMAIN elements[i].attrs \ {key} |-> elements[i].attrs[k]]
                ELSE elements[i].attrs,
                Without(elements[i].children, id, key))]

(* the value of a source under the solution t of the symbols syms *)
ReadIn(src, t, syms) ==
    LET val(s) == t[CHOOSE j \in 1..Len(syms) : syms[j] = s]
    IN  CASE src.k = "num" -> LinConst(src.n)
          [] src.k = "ref" -> val(SymbolName(src.id, src.attr))
          [] src.k = "quot" -> LinScale(val(SymbolName(src.id, src.attr)), RDiv(ROne, RInt(src.n)))
          [] src.k = "plus" -> LinAdd(val(SymbolName(src.id, src.attr)), LinConst(src.n))

(* C7: when an element declares x, w and right, and the layout without     *)
(* that right declaration solves to numbers under which the declared right *)
(* equals the element's right (= x + w), the layout solves too, although   *)
(* it has more equations than unknowns, and to the same numbers.           *)
C7_RedundantRight ==
    pc \in {"done", "raised"} =>
        \A n \in {m \in TreeNodes : {"x", "w", "right"} \subseteq DOMAIN m.attrs} :
          \A eqns \in {get_equations(Without(layout, n.id, "right"))} :
            \A syms \in {SetToSeq(SymbolsOf(eqns))} :
              \A t \in linsolve(eqns, syms) :
                ( /\ \A j \in 1..Len(syms) : IsNumber(t[j])
                  /\ ReadIn(n.attrs["right"], t, syms)
                        = ReadIn(Ref(n.id, "right"), t, syms) )
                =>  /\ pc = "done"
                    /\ Len(equations) > Len(symbols)
                    /\ Len(output) = Len(syms)
                    /\ \A j \in 1..Len(syms) :
                          Printed(syms[j]) /\ ValueOf(syms[j]) = t[j]

C7_Witness ==
    /\ pc = "done" /\ Resolved
    /\ Len(equations) > Len(symbols)
    /\ \E n \in TreeNodes :
          /\ {"x", "w", "right"} \subseteq DOMAIN n.attrs
          /\ Attr(n.id, "right") = LinAdd(Attr(n.id, "x"), Attr(n.id, "w"))
          /\ Attr(n.id, "w") # LinConst(0)

(* every order of the siblings of a layout, at every level *)
RECURSIVE SiblingOrders(_)
SiblingOrders(elements) ==
    LET n == Len(elements)
        perms == {p \in [1..n -> 1..n] : \A i, j \in 1..n : p[i] = p[j] => i = j}
        kids == [i \in 1..n |-> SiblingOrders(elements[i].children)]
        choices == {c \in [1..n -> UNION {kids[i] : i \in 1..n}] :
                       \A i \in 1..n : c[i] \in kids[i]}
    IN  IF n = 0 THEN {<<>>}
        ELSE {[i \in 1..n |-> Element(elements[p[i]].id, elements[p[i]].attrs, c[p[i]])] :
                 p \in perms, c \in choices}

(* C8: when a layout solves to numbers, the layout with its siblings in    *)
(* any other order solves to the same number for every symbol, in whatever *)
(* order the symbols are handed to the solver.                             *)
C8_SiblingOrder ==
    (pc = "done" /\ Resolved) =>
        \A other \in SiblingOrders(layout) :
          \A eqns \in {get_equations(other)} :
            \A syms \in SymbolOrders(SymbolsOf(eqns)) :
              \A sols \in {linsolve(eqns, syms)} :
                /\ sols # {}
                /\ Len(syms) = Len(output)
                /\ \A t \in sols : \A j \in 1..Len(syms) :
                      Printed(syms[j]) /\ ValueOf(syms[j]) = t[j]

(* a layout that solves, in which the first child's x is the right edge of *)
(* the sibling that follows it                                             *)
C8_Witness ==
    /\ pc = "done" /\ Resolved
    /\ Len(layout[1].children) = 2
    /\ "x" \in DOMAIN layout[1].children[1].attrs
    /\ layout[1].children[1].attrs["x"] = Ref(layout[1].children[2].id, "right")
    /\ Attr(layout[1].children[1].id, "x") # LinConst(0)

Min(a, b) == IF a <= b THEN a ELSE b

(* The list returned has the length of the one given                       *)
(* and a sum of at most total_width, each entry is the smaller of the      *)
(* given entry and one cap common to all entries, and a list whose sum     *)
(* already fits comes back as given.                                       *)
C10_Returned ==
    spc = "returned" =>
        /\ Len(columns) = Len(given)
        /\ SeqSum(columns) <= total_width
        /\ \E cap \in {columns[i] : i \in 1..Len(columns)} \cup {given[i] : i \in 1..Len(given)} :
              \A i \in 1..Len(given) : columns[i] = Min(given[i], cap)
        /\ SeqSum(given) <= total_width => columns = given

(* C10: the loop ends, and what it returns is as C10_Returned says. *)
C10_Shrink == [](C10_Returned) /\ <>(spc = "returned")

C10_Witness ==
    /\ spc = "returned"
    /\ steps >= 3
    /\ \E i, j \in 1..Len(given) : columns[i] < given[i] /\ columns[j] = given[j]
    /\ \E i, j \in 1..Len(given) : given[i] - columns[i] > given[j] - columns[j]
                                       /\ given[j] > columns[j]

(* the number of declarations in the tree *)
RECURSIVE Sum(_, _)
Sum(f, S) == IF S = {} THEN 0 ELSE LET x == CHOOSE x \in S : TRUE IN f[x] + Sum(f, S \ {x})

Declared == Sum([n \in TreeNodes |-> Cardinality(DOMAIN n.attrs)], TreeNodes)

(* C9: get_equations returns one equation per declared attribute plus two  *)
(* per element, none dropped: declared + 2 * elements in all.              *)
C9_OnePerDeclaration ==
    pc # "main" => Len(equations) = Declared + 2 * Cardinality(TreeNodes)

====
